---- MODULE Spec2Model ----
(***************************************************************************)
(* State-machine model of min-trade-frontend/src/App.tsx (HiTrade):        *)
(*   - App: the initial dual fetch (top-week + stats), the lazy fetch of    *)
(*     the fundamental ranking, tabs, view mode, wizard dialog, portfolio;  *)
(*   - PortfolioWizard: the three-step wizard and its submission;           *)
(*   - FundCard: what one card renders (BrainProfile, PerformanceStrip,     *)
(*     details) from its fund, its rank, the view mode and its toggle.      *)
(* React state setters are modelled as assignments, a useEffect as the     *)
(* re-evaluation of its body after every commit that changes one of its    *)
(* dependencies, and every `await` as a suspension point between actions.  *)
(***************************************************************************)
EXTENDS Integers, Sequences, FiniteSets, TLC

\* ---------------------------------------------------------------- bounds
MaxFund == 2            \* fund identities a response may carry
MaxRankedFetches == 3   \* fetchRankedFunds calls issued in one behaviour
MaxSuggestInFlight == 2 \* suggestion requests outstanding at once
MaxAcross == 1          \* requests one side has outstanding while the other acts
MaxRank == 5            \* positions of the list a fund card is taken from

NULL == "null"

\* How a handleSubmit() invocation can complete (lines 584-592): it calls
\* onComplete(data), or it reaches the catch block. live tells whether the
\* wizard that started it is still mounted.
NoOutcome == [kind |-> "none"]
Completed(live, data) == [kind |-> "success", live |-> live, data |-> data]
Caught(live) == [kind |-> "failure", live |-> live]

\* ------------------------------------------------------------ state
VARIABLES
    \* App (useState, lines 903-911)
    topFunds, stats, loading, wizardOpen, portfolio, activeTab, rankedFunds,
    viewMode,
    \* fetchData() of the mount effect (lines 913-938)
    fdPc, topRes, statsRes,
    \* fetchRankedFunds() invocations in flight (lines 940-950)
    rankedReqs,
    \* history: fetches issued, fetch whose response was stored last, outcome
    \* of the fetch that completed last, views activated so far
    rankedIssued, rankedApplied, rankedSettled, rankedLoaded,
    topIssued, statsIssued, everRanked,
    \* PortfolioWizard (useState, lines 523-529)
    step, amount, horizon, targetSri, wLoading, error, selectedPreset,
    \* handleSubmit() invocations in flight (lines 568-593)
    suggestReqs,
    \* the requests handed to fetch() by the last step
    wire,
    \* how a handleSubmit() invocation completed in the last step, if one did
    settled,
    \* one FundCard under observation: its props (lines 357-358) and its
    \* useState (line 359)
    fund, rank, expanded

appVars == <<topFunds, stats, loading, wizardOpen, portfolio, activeTab,
             rankedFunds, viewMode>>
fetchVars == <<fdPc, topRes, statsRes>>
rankedVars == <<rankedReqs, rankedIssued, rankedApplied, rankedSettled, rankedLoaded>>
histVars == <<topIssued, statsIssued, everRanked>>
wizVars == <<step, amount, horizon, targetSri, wLoading, error, selectedPreset>>
cardVars == <<fund, rank, expanded>>
vars == <<appVars, fetchVars, rankedVars, histVars, wizVars, suggestReqs, wire,
          settled, cardVars>>

\* ------------------------------------------------------------ data
\* Ordered fund sequences a list endpoint may answer with (no repeated isin).
FundLists ==
    {s \in UNION {[1..n -> 1..MaxFund] : n \in 0..MaxFund} :
        \A i, j \in DOMAIN s : i # j => s[i] # s[j]}

StatsValues == {"stats"}

Tabs == {"top-week", "ranked"}
ViewModes == {"simple", "advanced"}

\* What a fetch() can settle to: a rejection (network failure) or a response
\* with a success or a non-success status.
Rejected == [kind |-> "rejected"]
NotOk == [kind |-> "response", ok |-> FALSE]
Ok == [kind |-> "response", ok |-> TRUE]
Pending == [kind |-> "pending"]
NotIssued == [kind |-> "none"]

FetchOutcomes == {Rejected, NotOk, Ok}

\* What response.json() can settle to: a rejection (the body is not JSON)
\* or the parsed data.
BadJson == [json |-> FALSE]
Json(d) == [json |-> TRUE, data |-> d]

Bodies(D) == {BadJson} \cup {Json(d) : d \in D}

\* The two responses of fetchData are awaited together and read one after
\* the other, so each carries its body from the moment it arrives.
WithBody(b) == [kind |-> "response", ok |-> TRUE, body |-> b]

Outcomes(D) == {Rejected, NotOk} \cup {WithBody(b) : b \in Bodies(D)}

Request(op, body) == [op |-> op, body |-> body]

RemoveAt(s, i) == [k \in 1..(Len(s) - 1) |-> IF k < i THEN s[k] ELSE s[k + 1]]

\* ------------------------------------------------------------ effects
\* useEffect(..., [activeTab, rankedFunds.length]) (line 956): the effect is
\* re-run after a commit in which one of its dependencies changed.
RankedDeps(tab, funds) == <<tab, Len(funds)>>

RankedEffectRuns(before, after) == before # after

\* The same effect without its test of the active tab.
RankedEffectBody_AnyTab(tab, funds) == Len(funds) = 0

\* The body of that effect (line 953).
RankedEffectBody(tab, funds) == tab = "ranked" /\ Len(funds) = 0

\* Whether the commit of (tab1, funds1) makes the ranked effect call
\* fetchRankedFunds (lines 952-956).
RankedRefetch(tab1, funds1) ==
    /\ RankedEffectRuns(RankedDeps(activeTab, rankedFunds), RankedDeps(tab1, funds1))
    /\ RankedEffectBody(tab1, funds1)

\* fetchRankedFunds() up to its first await (line 942): one more fetch is
\* outstanding.
IssueRanked(reqs) ==
    /\ rankedIssued < MaxRankedFetches
    /\ rankedIssued' = rankedIssued + 1
    /\ rankedReqs' = Append(reqs, [id |-> rankedIssued + 1, pc |-> "fetch"])

\* The commit of (tab1, funds1) followed by the ranked effect.
CommitRanked(tab1, funds1, reqs) ==
    IF RankedRefetch(tab1, funds1)
    THEN IssueRanked(reqs)
    ELSE /\ rankedReqs' = reqs
         /\ rankedIssued' = rankedIssued

RankedWire(tab1, funds1) ==
    IF RankedRefetch(tab1, funds1) THEN {Request("ranked", NULL)} ELSE {}

\* The requests of fetchData() (lines 916-919).
MountRequests == {Request("top-week", NULL), Request("stats", NULL)}

CountOp(reqs, op) == Cardinality({r \in reqs : r.op = op})

\* The same effect depending on the active tab.
FetchDataDeps_Tab(tab) == <<tab>>

\* The dependency list of the effect that calls fetchData() (line 938): it
\* is empty, so the effect runs at mount and after no later commit.
FetchDataDeps(tab) == <<>>

FetchDataRuns(tab0, tab1) == FetchDataDeps(tab0) # FetchDataDeps(tab1)

\* fetchData() up to `await Promise.all` (lines 914-919).
StartFetchData ==
    /\ fdPc' = "awaitAll"
    /\ topRes' = Pending
    /\ statsRes' = Pending
    /\ topIssued' = topIssued + CountOp(MountRequests, "top-week")
    /\ statsIssued' = statsIssued + CountOp(MountRequests, "stats")

\* ------------------------------------------------------------ App
Mounted == fdPc # "init"

\* First render committed: both effects run (lines 913-938 and 952-956).
Mount ==
    /\ fdPc = "init"
    /\ StartFetchData
    /\ IF RankedEffectBody(activeTab, rankedFunds)
       THEN /\ IssueRanked(rankedReqs)
            /\ wire' = MountRequests \cup {Request("ranked", NULL)}
            /\ UNCHANGED cardVars
            /\ settled' = NoOutcome
       ELSE /\ UNCHANGED <<rankedReqs, rankedIssued>>
            /\ wire' = MountRequests
            /\ UNCHANGED cardVars
            /\ settled' = NoOutcome
    /\ UNCHANGED <<appVars, rankedApplied, rankedSettled, rankedLoaded, everRanked,
                   wizVars, suggestReqs>>

\* fetchData without its finally block.
Finally_Skipped == loading' = loading /\ fdPc' = "done"

\* The code after `await Promise.all` once both responses are there
\* (lines 921-929), up to the next await or to the end of fetchData.
Finally == loading' = FALSE /\ fdPc' = "done"

AfterStatsCheck(sr) ==
    IF sr.ok THEN loading' = loading /\ fdPc' = "statsJson"
    ELSE Finally

AfterAll(tr, sr) ==
    IF tr.ok THEN loading' = loading /\ fdPc' = "topJson"
    ELSE AfterStatsCheck(sr)

\* Promise.all (line 916): rejects as soon as one fetch rejects, fulfils
\* when both have fulfilled.
AllSettles(tr, sr) ==
    IF fdPc # "awaitAll" THEN UNCHANGED <<fdPc, loading>>
    ELSE IF tr.kind = "rejected" \/ sr.kind = "rejected" THEN Finally
    ELSE IF tr.kind = "response" /\ sr.kind = "response" THEN AfterAll(tr, sr)
    ELSE UNCHANGED <<fdPc, loading>>

\* fetch(top-week) settles (line 917).
TopSettles(o) ==
    /\ topRes.kind = "pending"
    /\ topRes' = o
    /\ AllSettles(o, statsRes)
    /\ wire' = {}
    /\ UNCHANGED cardVars
    /\ settled' = NoOutcome
    /\ UNCHANGED <<topFunds, stats, wizardOpen, portfolio, activeTab, rankedFunds,
                   viewMode, statsRes, rankedVars, histVars, wizVars, suggestReqs>>

\* fetch(stats) settles (line 918).
StatsSettles(o) ==
    /\ statsRes.kind = "pending"
    /\ statsRes' = o
    /\ AllSettles(topRes, o)
    /\ wire' = {}
    /\ UNCHANGED cardVars
    /\ settled' = NoOutcome
    /\ UNCHANGED <<topFunds, stats, wizardOpen, portfolio, activeTab, rankedFunds,
                   viewMode, topRes, rankedVars, histVars, wizVars, suggestReqs>>

\* `await topRes.json()` settles (lines 922-923, then 926 or 930-933).
TopJsonSettles ==
    /\ fdPc = "topJson"
    /\ IF topRes.body.json
       THEN /\ topFunds' = topRes.body.data
            /\ AfterStatsCheck(statsRes)
       ELSE /\ topFunds' = topFunds
            /\ Finally
    /\ wire' = {}
    /\ UNCHANGED cardVars
    /\ settled' = NoOutcome
    /\ UNCHANGED <<stats, wizardOpen, portfolio, activeTab, rankedFunds, viewMode,
                   topRes, statsRes, rankedVars, histVars, wizVars, suggestReqs>>

\* `await statsRes.json()` settles (lines 927-928, then 930-933).
StatsJsonSettles ==
    /\ fdPc = "statsJson"
    /\ stats' = (IF statsRes.body.json THEN statsRes.body.data ELSE stats)
    /\ Finally
    /\ wire' = {}
    /\ UNCHANGED cardVars
    /\ settled' = NoOutcome
    /\ UNCHANGED <<topFunds, wizardOpen, portfolio, activeTab, rankedFunds, viewMode,
                   topRes, statsRes, rankedVars, histVars, wizVars, suggestReqs>>

\* <Tabs onValueChange={setActiveTab}> (line 1029), then the effects whose
\* dependencies changed.
SetActiveTab(t) ==
    /\ Mounted
    /\ activeTab' = t
    /\ everRanked' = (everRanked \/ t = "ranked")
    /\ CommitRanked(t, rankedFunds, rankedReqs)
    /\ IF FetchDataRuns(activeTab, t)
       THEN /\ StartFetchData
            /\ wire' = RankedWire(t, rankedFunds) \cup MountRequests
            /\ UNCHANGED cardVars
            /\ settled' = NoOutcome
       ELSE /\ UNCHANGED <<fetchVars, topIssued, statsIssued>>
            /\ wire' = RankedWire(t, rankedFunds)
            /\ UNCHANGED cardVars
            /\ settled' = NoOutcome
    /\ UNCHANGED <<topFunds, stats, loading, wizardOpen, portfolio, rankedFunds,
                   viewMode, rankedApplied, rankedSettled, rankedLoaded,
                   wizVars, suggestReqs>>

\* fetch(ranked) of invocation i settles (lines 942-943, 947-949).
RankedFetchSettles(i, o) ==
    /\ i \in DOMAIN rankedReqs
    /\ rankedReqs[i].pc = "fetch"
    /\ IF o.kind = "response" /\ o.ok
       THEN /\ rankedReqs' = [rankedReqs EXCEPT ![i].pc = "json"]
            /\ rankedSettled' = rankedSettled
       ELSE /\ rankedReqs' = RemoveAt(rankedReqs, i)
            /\ rankedSettled' = "failed"
    /\ wire' = {}
    /\ UNCHANGED cardVars
    /\ settled' = NoOutcome
    /\ UNCHANGED <<appVars, fetchVars, rankedIssued, rankedApplied, rankedLoaded,
                   histVars, wizVars, suggestReqs>>

\* The response of invocation i appended to the stored list.
RankedJsonSettles_Merge(i, b) ==
    /\ i \in DOMAIN rankedReqs
    /\ rankedReqs[i].pc = "json"
    /\ IF b.json
       THEN /\ rankedFunds' = rankedFunds \o b.data
            /\ rankedApplied' = rankedReqs[i].id
            /\ rankedSettled' = "loaded"
            /\ rankedLoaded' = TRUE
            /\ CommitRanked(activeTab, rankedFunds \o b.data, RemoveAt(rankedReqs, i))
            /\ wire' = RankedWire(activeTab, rankedFunds \o b.data)
            /\ UNCHANGED cardVars
            /\ settled' = NoOutcome
       ELSE /\ rankedReqs' = RemoveAt(rankedReqs, i)
            /\ rankedSettled' = "failed"
            /\ wire' = {}
            /\ UNCHANGED cardVars
            /\ settled' = NoOutcome
            /\ UNCHANGED <<rankedFunds, rankedApplied, rankedLoaded, rankedIssued>>
    /\ UNCHANGED <<topFunds, stats, loading, wizardOpen, portfolio, activeTab,
                   viewMode, fetchVars, histVars, wizVars, suggestReqs>>

\* `await res.json()` of invocation i settles with body b (lines 944-945,
\* 947-949), then the ranked effect.
RankedJsonSettles(i, b) ==
    /\ i \in DOMAIN rankedReqs
    /\ rankedReqs[i].pc = "json"
    /\ IF b.json
       THEN /\ rankedFunds' = b.data
            /\ rankedApplied' = rankedReqs[i].id
            /\ rankedSettled' = "loaded"
            /\ rankedLoaded' = TRUE
            /\ CommitRanked(activeTab, b.data, RemoveAt(rankedReqs, i))
            /\ wire' = RankedWire(activeTab, b.data)
            /\ UNCHANGED cardVars
            /\ settled' = NoOutcome
       ELSE /\ rankedReqs' = RemoveAt(rankedReqs, i)
            /\ rankedSettled' = "failed"
            /\ wire' = {}
            /\ UNCHANGED cardVars
            /\ settled' = NoOutcome
            /\ UNCHANGED <<rankedFunds, rankedApplied, rankedLoaded, rankedIssued>>
    /\ UNCHANGED <<topFunds, stats, loading, wizardOpen, portfolio, activeTab,
                   viewMode, fetchVars, histVars, wizVars, suggestReqs>>

\* The toggle with the view mode among the dependencies of the mount effect.
SetViewMode_Refetch(m) ==
    /\ Mounted
    /\ viewMode' = m
    /\ wire' = (IF m # viewMode THEN MountRequests ELSE {})
    /\ UNCHANGED cardVars
    /\ settled' = NoOutcome
    /\ UNCHANGED <<topFunds, stats, loading, wizardOpen, portfolio, activeTab,
                   rankedFunds, fetchVars, rankedVars, histVars, wizVars, suggestReqs>>

\* The toggle as a one-way switch: once advanced, the preference stays.
SetViewMode_OneWay(m) ==
    /\ Mounted
    /\ viewMode' = (IF viewMode = "advanced" THEN viewMode ELSE m)
    /\ wire' = {}
    /\ UNCHANGED cardVars
    /\ settled' = NoOutcome
    /\ UNCHANGED <<topFunds, stats, loading, wizardOpen, portfolio, activeTab,
                   rankedFunds, fetchVars, rankedVars, histVars, wizVars, suggestReqs>>

\* ViewModeToggle buttons (lines 267, 278).
SetViewMode(m) ==
    /\ Mounted
    /\ viewMode' = m
    /\ wire' = {}
    /\ UNCHANGED cardVars
    /\ settled' = NoOutcome
    /\ UNCHANGED <<topFunds, stats, loading, wizardOpen, portfolio, activeTab,
                   rankedFunds, fetchVars, rankedVars, histVars, wizVars, suggestReqs>>

\* ------------------------------------------------------------ numbers
\* A string is the sequence of its characters. A JavaScript number is
\* (-1)^neg * mant * 10^exp with mant not a multiple of 10 (0 is mant 0,
\* exp 0); NaN and JSON's null are values of their own.
Number(neg, mant, exp) == [kind |-> "number", neg |-> neg, mant |-> mant, exp |-> exp]
NaN == [kind |-> "NaN", neg |-> FALSE, mant |-> 0, exp |-> 0]
JsonNull == [kind |-> "null", neg |-> FALSE, mant |-> 0, exp |-> 0]

DigitChars == <<"0", "1", "2", "3", "4", "5", "6", "7", "8", "9">>
IsDigit(c) == \E n \in DOMAIN DigitChars : DigitChars[n] = c
DigitVal(c) == (CHOOSE n \in DOMAIN DigitChars : DigitChars[n] = c) - 1

RECURSIVE Pow10(_)
Pow10(n) == IF n <= 0 THEN 1 ELSE 10 * Pow10(n - 1)

\* First position at or after i that holds no digit.
RECURSIVE DigitsEnd(_, _)
DigitsEnd(s, i) == IF i <= Len(s) /\ IsDigit(s[i]) THEN DigitsEnd(s, i + 1) ELSE i

\* The value of the digits s[i], ..., s[j-1].
RECURSIVE DigitsValue(_, _, _)
DigitsValue(s, i, j) ==
    IF i >= j THEN 0 ELSE DigitsValue(s, i, j - 1) * 10 + DigitVal(s[j - 1])

RECURSIVE Normal(_, _, _)
Normal(neg, mant, exp) ==
    IF mant = 0 THEN Number(neg, 0, 0)
    ELSE IF mant % 10 = 0 THEN Normal(neg, mant \div 10, exp + 1)
    ELSE Number(neg, mant, exp)

\* parseFloat (line 577): the longest prefix that is a decimal literal
\* [sign] digits [. digits] [e [sign] digits], NaN when there is none.
ParseFloat(s) ==
    LET signed == Len(s) >= 1 /\ s[1] \in {"+", "-"}
        neg == signed /\ s[1] = "-"
        i0 == IF signed THEN 2 ELSE 1
        i1 == DigitsEnd(s, i0)
        hasDot == i1 <= Len(s) /\ s[i1] = "."
        f0 == IF hasDot THEN i1 + 1 ELSE i1
        f1 == IF hasDot THEN DigitsEnd(s, f0) ELSE i1
        nInt == i1 - i0
        nFrac == f1 - f0
        mant == DigitsValue(s, i0, i1) * Pow10(nFrac) + DigitsValue(s, f0, f1)
        hasE == f1 <= Len(s) /\ s[f1] \in {"e", "E"}
        eSigned == hasE /\ f1 + 1 <= Len(s) /\ s[f1 + 1] \in {"+", "-"}
        e0 == IF eSigned THEN f1 + 2 ELSE f1 + 1
        e1 == IF hasE THEN DigitsEnd(s, e0) ELSE e0
        hasExp == hasE /\ e1 > e0
        expo == IF hasExp
                THEN (IF eSigned /\ s[f1 + 1] = "-" THEN -1 ELSE 1) * DigitsValue(s, e0, e1)
                ELSE 0
    IN  IF nInt + nFrac = 0 THEN NaN ELSE Normal(neg, mant, expo - nFrac)

\* JSON.stringify of a number (line 576): NaN is written as null and -0 as 0.
JsonNumber(v) ==
    IF v.kind = "NaN" THEN JsonNull
    ELSE IF v.mant = 0 THEN Number(FALSE, 0, 0)
    ELSE v

\* ------------------------------------------------------------ wizard data
Horizons == {"short", "medium", "long"}

\* A slider graduated up to ten.
SliderMax_Ten == 5 + 5

\* <Slider min={1} max={7} step={1}> (lines 706-708).
SliderMin == 1
SliderMax == 7

\* presets (lines 532-560).
PresetIds == {"prudent", "equilibre", "dynamique"}
Presets ==
    [id \in PresetIds |->
        CASE id = "prudent" -> [sri |-> 2, horizon |-> "short"]
          [] id = "equilibre" -> [sri |-> 4, horizon |-> "medium"]
          [] id = "dynamique" -> [sri |-> 6, horizon |-> "long"]]

\* useState initial values (lines 523-529).
InitialAmount == <<"1", "0", "0", "0", "0", "0">>
InitialSri == 4

\* Values the amount <Input type="number"> can deliver to onChange
\* (line 629): the empty string or a numeric literal.
AmountInputs ==
    { <<>>,
      <<"-", "5">>,
      <<"5", "0", "0", "0", "0">>,
      <<"2", ".", "5", "0">>,
      <<"1", "e", "3">> }

ErrorMessage == "Erreur lors de la generation du portefeuille"

\* Suggestions the service may answer with.
Portfolios == {"pfA", "pfB"}

\* The same body with the horizon left at its initial value.
SuggestBody_Drift(a, h, sri) ==
    [amount |-> JsonNumber(ParseFloat(a)),
     horizon |-> "medium",
     target_sri |-> sri[1],
     sri_tolerance |-> 1]

\* The body of the suggestion request (lines 576-581).
SuggestBody(a, h, sri) ==
    [amount |-> JsonNumber(ParseFloat(a)),
     horizon |-> h,
     target_sri |-> sri[1],
     sri_tolerance |-> 1]

\* ------------------------------------------------------------ wizard
\* The wizard's state held outside the dialog: it survives close and open.
WizardInitial_Kept == UNCHANGED wizVars

\* The PortfolioWizard is rendered inside <DialogContent> (lines 1103-1114):
\* it is mounted, with its initial state, while the dialog is open.
WizardInitial ==
    /\ step' = 1
    /\ amount' = InitialAmount
    /\ horizon' = "medium"
    /\ targetSri' = <<InitialSri>>
    /\ wLoading' = FALSE
    /\ error' = NULL
    /\ selectedPreset' = NULL

\* The handleSubmit invocations of an unmounted wizard keep running, but
\* their setLoading/setError no longer reach a mounted component.
Orphaned(reqs) == [k \in DOMAIN reqs |-> [reqs[k] EXCEPT !.live = FALSE]]

\* <DialogContent> renders its children only while the dialog is open: the
\* wizard is unmounted when the dialog closes, and its state is discarded.
Unmount(reqs) ==
    /\ WizardInitial
    /\ suggestReqs' = Orphaned(reqs)

\* setWizardOpen(false) (lines 960, 1096, 1111).
CloseWizard(reqs) ==
    /\ wizardOpen' = FALSE
    /\ Unmount(reqs)

\* <DialogTrigger> (lines 1096-1102): onOpenChange(true).
OpenWizard ==
    /\ Mounted
    /\ ~wizardOpen
    /\ wizardOpen' = TRUE
    /\ WizardInitial
    /\ wire' = {}
    /\ UNCHANGED cardVars
    /\ settled' = NoOutcome
    /\ UNCHANGED <<topFunds, stats, loading, portfolio, activeTab, rankedFunds,
                   viewMode, fetchVars, rankedVars, histVars, suggestReqs>>

\* The dialog is dismissed: onOpenChange(false) (line 1096).
DismissWizard ==
    /\ wizardOpen
    /\ CloseWizard(suggestReqs)
    /\ wire' = {}
    /\ UNCHANGED cardVars
    /\ settled' = NoOutcome
    /\ UNCHANGED <<topFunds, stats, loading, portfolio, activeTab, rankedFunds,
                   viewMode, fetchVars, rankedVars, histVars>>

\* The left button (line 729): Annuler on step 1, Retour otherwise.
WizardBack ==
    /\ wizardOpen
    /\ IF step = 1
       THEN CloseWizard(suggestReqs)
       ELSE /\ step' = step - 1
            /\ UNCHANGED <<wizardOpen, amount, horizon, targetSri, wLoading, error,
                           selectedPreset, suggestReqs>>
    /\ wire' = {}
    /\ UNCHANGED cardVars
    /\ settled' = NoOutcome
    /\ UNCHANGED <<topFunds, stats, loading, portfolio, activeTab, rankedFunds,
                   viewMode, fetchVars, rankedVars, histVars>>

\* Suivant rendered on every step.
WizardNext_AnyStep ==
    /\ wizardOpen
    /\ step' = step + 1
    /\ wire' = {}
    /\ UNCHANGED cardVars
    /\ settled' = NoOutcome
    /\ UNCHANGED <<appVars, fetchVars, rankedVars, histVars, amount, horizon,
                   targetSri, wLoading, error, selectedPreset, suggestReqs>>

\* Suivant (lines 736-743), rendered while step < 3.
WizardNext ==
    /\ wizardOpen
    /\ step < 3
    /\ step' = step + 1
    /\ wire' = {}
    /\ UNCHANGED cardVars
    /\ settled' = NoOutcome
    /\ UNCHANGED <<appVars, fetchVars, rankedVars, histVars, amount, horizon,
                   targetSri, wLoading, error, selectedPreset, suggestReqs>>

\* The amount input (lines 625-632), rendered on step 1.
SetAmount(a) ==
    /\ wizardOpen
    /\ step = 1
    /\ amount' = a
    /\ wire' = {}
    /\ UNCHANGED cardVars
    /\ settled' = NoOutcome
    /\ UNCHANGED <<appVars, fetchVars, rankedVars, histVars, step, horizon,
                   targetSri, wLoading, error, selectedPreset, suggestReqs>>

\* <Select onValueChange={setHorizon}> (line 648), rendered on step 2.
SetHorizon(h) ==
    /\ wizardOpen
    /\ step = 2
    /\ horizon' = h
    /\ wire' = {}
    /\ UNCHANGED cardVars
    /\ settled' = NoOutcome
    /\ UNCHANGED <<appVars, fetchVars, rankedVars, histVars, step, amount,
                   targetSri, wLoading, error, selectedPreset, suggestReqs>>

\* handlePresetSelect without its setHorizon.
HandlePresetSelect_SriOnly(p) ==
    /\ wizardOpen
    /\ step = 3
    /\ selectedPreset' = p
    /\ targetSri' = <<Presets[p].sri>>
    /\ wire' = {}
    /\ UNCHANGED cardVars
    /\ settled' = NoOutcome
    /\ UNCHANGED <<appVars, fetchVars, rankedVars, histVars, step, amount,
                   horizon, wLoading, error, suggestReqs>>

\* handlePresetSelect (lines 562-566), the preset buttons of step 3.
HandlePresetSelect(p) ==
    /\ wizardOpen
    /\ step = 3
    /\ selectedPreset' = p
    /\ targetSri' = <<Presets[p].sri>>
    /\ horizon' = Presets[p].horizon
    /\ wire' = {}
    /\ UNCHANGED cardVars
    /\ settled' = NoOutcome
    /\ UNCHANGED <<appVars, fetchVars, rankedVars, histVars, step, amount,
                   wLoading, error, suggestReqs>>

\* The slider handler without its setSelectedPreset(null).
SliderChange_KeepsPreset(v) ==
    /\ wizardOpen
    /\ step = 3
    /\ targetSri' = <<v>>
    /\ wire' = {}
    /\ UNCHANGED cardVars
    /\ settled' = NoOutcome
    /\ UNCHANGED <<appVars, fetchVars, rankedVars, histVars, step, amount,
                   horizon, wLoading, error, selectedPreset, suggestReqs>>

\* <Slider onValueChange> (line 705), rendered on step 3.
SliderChange(v) ==
    /\ wizardOpen
    /\ step = 3
    /\ targetSri' = <<v>>
    /\ selectedPreset' = NULL
    /\ wire' = {}
    /\ UNCHANGED cardVars
    /\ settled' = NoOutcome
    /\ UNCHANGED <<appVars, fetchVars, rankedVars, histVars, step, amount,
                   horizon, wLoading, error, suggestReqs>>

\* handleSubmit without its setError(null).
HandleSubmit_KeepsError ==
    /\ wizardOpen
    /\ step = 3
    /\ ~wLoading
    /\ Len(suggestReqs) < MaxSuggestInFlight
    /\ wLoading' = TRUE
    /\ error' = error
    /\ suggestReqs' = Append(suggestReqs, [live |-> TRUE, pc |-> "fetch"])
    /\ wire' = {Request("suggest", SuggestBody(amount, horizon, targetSri))}
    /\ UNCHANGED cardVars
    /\ settled' = NoOutcome
    /\ UNCHANGED <<appVars, fetchVars, rankedVars, histVars, step, amount,
                   horizon, targetSri, selectedPreset>>

\* handleSubmit up to its first await (lines 568-582); the button is
\* rendered on step 3 and disabled while loading (lines 745-747).
HandleSubmit ==
    /\ wizardOpen
    /\ step = 3
    /\ ~wLoading
    /\ Len(suggestReqs) < MaxSuggestInFlight
    /\ wLoading' = TRUE
    /\ error' = NULL
    /\ suggestReqs' = Append(suggestReqs, [live |-> TRUE, pc |-> "fetch"])
    /\ wire' = {Request("suggest", SuggestBody(amount, horizon, targetSri))}
    /\ UNCHANGED cardVars
    /\ settled' = NoOutcome
    /\ UNCHANGED <<appVars, fetchVars, rankedVars, histVars, step, amount,
                   horizon, targetSri, selectedPreset>>

\* The catch block of handleSubmit without the finally block.
SubmitFailed_StaysLoading(i) ==
    /\ error' = (IF suggestReqs[i].live THEN ErrorMessage ELSE error)
    /\ suggestReqs' = RemoveAt(suggestReqs, i)
    /\ settled' = Caught(suggestReqs[i].live)
    /\ UNCHANGED <<wizardOpen, portfolio, step, amount, horizon, targetSri,
                   wLoading, selectedPreset>>

\* catch and finally of handleSubmit (lines 588-592) for invocation i.
SubmitFailed(i) ==
    /\ error' = (IF suggestReqs[i].live THEN ErrorMessage ELSE error)
    /\ wLoading' = (IF suggestReqs[i].live THEN FALSE ELSE wLoading)
    /\ suggestReqs' = RemoveAt(suggestReqs, i)
    /\ settled' = Caught(suggestReqs[i].live)
    /\ UNCHANGED <<wizardOpen, portfolio, step, amount, horizon, targetSri,
                   selectedPreset>>

\* fetch(suggest) of invocation i settles (lines 573-584).
SuggestFetchSettles(i, o) ==
    /\ i \in DOMAIN suggestReqs
    /\ suggestReqs[i].pc = "fetch"
    /\ IF o.kind = "response" /\ o.ok
       THEN /\ suggestReqs' = [suggestReqs EXCEPT ![i].pc = "json"]
            /\ settled' = NoOutcome
            /\ UNCHANGED <<wizardOpen, portfolio, wizVars>>
       ELSE SubmitFailed(i)
    /\ wire' = {}
    /\ UNCHANGED cardVars
    /\ UNCHANGED <<topFunds, stats, loading, activeTab, rankedFunds, viewMode,
                   fetchVars, rankedVars, histVars>>

\* handlePortfolioComplete without its setWizardOpen(false).
HandlePortfolioComplete_StaysOpen(p, reqs) ==
    /\ portfolio' = p
    /\ suggestReqs' = reqs
    /\ wLoading' = FALSE
    /\ UNCHANGED <<wizardOpen, step, amount, horizon, targetSri, error,
                   selectedPreset>>

\* handlePortfolioComplete (lines 958-961).
HandlePortfolioComplete(p, reqs) ==
    /\ portfolio' = p
    /\ CloseWizard(reqs)

\* `await response.json()` of invocation i settles with body b
\* (lines 586-592).
SuggestJsonSettles(i, b) ==
    /\ i \in DOMAIN suggestReqs
    /\ suggestReqs[i].pc = "json"
    /\ IF b.json
       THEN /\ HandlePortfolioComplete(b.data, RemoveAt(suggestReqs, i))
            /\ settled' = Completed(suggestReqs[i].live, b.data)
       ELSE SubmitFailed(i)
    /\ wire' = {}
    /\ UNCHANGED cardVars
    /\ UNCHANGED <<topFunds, stats, loading, activeTab, rankedFunds, viewMode,
                   fetchVars, rankedVars, histVars>>

\* Closing the result dialog reloads the page data.
ClosePortfolio_Refetch ==
    /\ portfolio # NULL
    /\ portfolio' = NULL
    /\ wire' = MountRequests
    /\ UNCHANGED cardVars
    /\ settled' = NoOutcome
    /\ UNCHANGED <<topFunds, stats, loading, wizardOpen, activeTab, rankedFunds,
                   viewMode, fetchVars, rankedVars, histVars, wizVars, suggestReqs>>

\* The result dialog is closed (lines 1191, 1202).
ClosePortfolio ==
    /\ portfolio # NULL
    /\ portfolio' = NULL
    /\ wire' = {}
    /\ UNCHANGED cardVars
    /\ settled' = NoOutcome
    /\ UNCHANGED <<topFunds, stats, loading, wizardOpen, activeTab, rankedFunds,
                   viewMode, fetchVars, rankedVars, histVars, wizVars, suggestReqs>>

\* ------------------------------------------------------------ fund card
\* A nullable number is <<>> (null or undefined) or <<v>>. A number is
\* counted in quarters (v stands for v/4), which JavaScript represents
\* exactly, so that toFixed rounds the decimal value.
Quarter == 4
Missing == <<>>
Of(v) == <<v>>

Abs(x) == IF x < 0 THEN 0 - x ELSE x
Min(a, b) == IF a < b THEN a ELSE b
Max(a, b) == IF a > b THEN a ELSE b

\* Number.prototype.toFixed(d) of v/4: the sign, then the integer n of
\* d decimals closest to the magnitude, the larger one on a tie.
ToFixed(v, d) ==
    [neg |-> v < 0,
     units |-> (2 * Abs(v) * Pow10(d) + Quarter) \div (2 * Quarter),
     digits |-> d]

\* The text of a nullable number: <<>> where the code writes N/A or nothing.
NA == <<>>
Text(n, d) == IF n = Missing THEN NA ELSE <<ToFixed(n[1], d)>>

\* FundMetrics | null (lines 48-58, 69).
NoMetrics == [kind |-> "null"]
Metrics(p1w, p1m, p3m, p1y, p3y, vol, sharpe, sortino, maxdd) ==
    [kind |-> "metrics", perf_1w |-> p1w, perf_1m |-> p1m, perf_3m |-> p3m,
     perf_1y |-> p1y, perf_3y |-> p3y, vol_60d |-> vol, sharpe_ratio |-> sharpe,
     sortino_ratio |-> sortino, max_drawdown |-> maxdd]

\* The fields of a Fund that FundCard reads below its header and badges
\* (lines 60-81); NoFund: no card is under observation.
NoFund == [kind |-> "none"]
Fund(metrics, score, confidence, reasoning, company, quality, valuation, stability) ==
    [kind |-> "fund", metrics |-> metrics, fundamental_score |-> score,
     confidence |-> confidence, reasoning |-> reasoning,
     management_company |-> company, quality_score |-> quality,
     valuation_score |-> valuation, stability_score |-> stability]

\* A JavaScript string used as a condition (lines 495, 502).
Truthy(s) == s # NULL /\ s # ""

\* One row of BrainProfile (lines 224-252): the bar width of line 236, the
\* label of line 240, the detail line of line 246.
BarWidth(value) == Min(100 * Quarter, Max(0, value))

BarRow(label, value, showDetails, mode) ==
    [label |-> label,
     width |-> IF value # Missing THEN Of(BarWidth(value[1])) ELSE Missing,
     text |-> Text(value, 0),
     detail |-> value # Missing /\ (showDetails \/ mode = "advanced")]

\* BrainProfile without its allNull branch.
BrainProfile_AlwaysRows(quality, valuation, stability, showDetails, mode) ==
    [unavailable |-> FALSE,
     rows |-> <<BarRow("Gestion", quality, showDetails, mode),
                BarRow("Valo", valuation, showDetails, mode),
                BarRow("Stabilite", stability, showDetails, mode)>>]

\* BrainProfile (lines 166-258).
BrainProfile(quality, valuation, stability, showDetails, mode) ==
    LET allNull == quality = Missing /\ valuation = Missing /\ stability = Missing
    IN  IF allNull
        THEN [unavailable |-> TRUE, rows |-> <<>>]
        ELSE [unavailable |-> FALSE,
              rows |-> <<BarRow("Gestion", quality, showDetails, mode),
                         BarRow("Valo", valuation, showDetails, mode),
                         BarRow("Stabilite", stability, showDetails, mode)>>]

\* The items of the advanced view used in both modes.
PerfItems_Advanced(metrics, mode) ==
    <<[label |-> "1S", value |-> metrics.perf_1w],
      [label |-> "1M", value |-> metrics.perf_1m],
      [label |-> "1A", value |-> metrics.perf_1y],
      [label |-> "3A", value |-> metrics.perf_3y]>>

\* The items of PerformanceStrip (lines 304-314).
PerfItems(metrics, mode) ==
    IF mode = "simple"
    THEN <<[label |-> "1M", value |-> metrics.perf_1m],
           [label |-> "1A", value |-> metrics.perf_1y]>>
    ELSE <<[label |-> "1S", value |-> metrics.perf_1w],
           [label |-> "1M", value |-> metrics.perf_1m],
           [label |-> "1A", value |-> metrics.perf_1y],
           [label |-> "3A", value |-> metrics.perf_3y]>>

\* PerformanceStrip (lines 293-354).
PerformanceStrip(metrics, mode) ==
    IF metrics = NoMetrics
    THEN [unavailable |-> TRUE, slots |-> <<>>]
    ELSE LET items == PerfItems(metrics, mode)
             hasAnyPerf == \E i \in DOMAIN items : items[i].value # Missing
         IN  IF ~hasAnyPerf
             THEN [unavailable |-> TRUE, slots |-> <<>>]
             ELSE [unavailable |-> FALSE,
                   slots |->
                       [i \in DOMAIN items |->
                           [label |-> items[i].label,
                            up |-> items[i].value # Missing /\ items[i].value[1] >= 0,
                            text |-> Text(items[i].value, 2)]]
                       \o (IF mode = "advanced"
                           THEN <<[label |-> "Vol", up |-> FALSE,
                                   text |-> Text(metrics.vol_60d, 1)]>>
                           ELSE <<>>)]

\* The highlight decided by isTopRank alone: one tier for the first three.
Tier_TopThree(r) ==
    IF r # Missing /\ r[1] <= 3 THEN "gold" ELSE "none"

\* The highlight of FundCard (lines 361-373).
Tier(r) ==
    LET isTop1 == r = Of(1)
        isTop2 == r = Of(2)
        isTop3 == r = Of(3)
    IN  IF isTop1 THEN "gold"
        ELSE IF isTop2 THEN "silver"
        ELSE IF isTop3 THEN "bronze"
        ELSE "none"

\* (fund.confidence * 100).toFixed(0) (lines 446, 489).
ConfidenceText(c) == Text(IF c = Missing THEN Missing ELSE Of(c[1] * 100), 0)

\* The zone of lines 442-448.
ConfidenceZone(f, mode) ==
    IF mode = "simple" /\ f.confidence # Missing
    THEN ConfidenceText(f.confidence)
    ELSE NA

\* The zone of lines 450-507: the lines it shows, in order.
DetailsZone(f, mode, exp) ==
    LET m == f.metrics
        has == m # NoMetrics
        Shown(e) == e.shown
    IN  IF mode = "advanced" \/ exp
        THEN SelectSeq(
               <<[field |-> "sharpe", shown |-> has /\ m.sharpe_ratio # Missing],
                 [field |-> "sortino", shown |-> has /\ m.sortino_ratio # Missing],
                 [field |-> "max_drawdown", shown |-> has /\ m.max_drawdown # Missing],
                 [field |-> "confidence", shown |-> f.confidence # Missing],
                 [field |-> "reasoning", shown |-> Truthy(f.reasoning)],
                 [field |-> "management_company",
                  shown |-> Truthy(f.management_company)]>>,
               Shown)
        ELSE <<>>

\* FundCard (lines 357-520) below its header and badges.
FundCard(f, r, mode, exp) ==
    [tier |-> Tier(r),
     score |-> Text(f.fundamental_score, 0),
     profile |-> BrainProfile(f.quality_score, f.valuation_score,
                              f.stability_score, FALSE, mode),
     perf |-> PerformanceStrip(f.metrics, mode),
     confidence |-> ConfidenceZone(f, mode),
     details |-> DetailsZone(f, mode, exp),
     toggle |-> mode = "simple"]

\* What the card under observation renders in the current state.
card == FundCard(fund, rank, viewMode, expanded)

\* The toggle button of the card (lines 509-513).
ToggleExpanded ==
    /\ fund # NoFund
    /\ viewMode = "simple"
    /\ expanded' = ~expanded
    /\ wire' = {}
    /\ settled' = NoOutcome
    /\ UNCHANGED <<appVars, fetchVars, rankedVars, histVars, wizVars, suggestReqs,
                   fund, rank>>

\* ------------------------------------------------------------ specification
Init ==
    /\ topFunds = <<>>
    /\ stats = NULL
    /\ loading = TRUE
    /\ wizardOpen = FALSE
    /\ portfolio = NULL
    /\ activeTab = "top-week"
    /\ rankedFunds = <<>>
    /\ viewMode = "simple"
    /\ fdPc = "init"
    /\ topRes = NotIssued
    /\ statsRes = NotIssued
    /\ rankedReqs = <<>>
    /\ rankedIssued = 0
    /\ rankedApplied = 0
    /\ rankedSettled = "none"
    /\ rankedLoaded = FALSE
    /\ topIssued = 0
    /\ statsIssued = 0
    /\ everRanked = FALSE
    /\ step = 1
    /\ amount = InitialAmount
    /\ horizon = "medium"
    /\ targetSri = <<InitialSri>>
    /\ wLoading = FALSE
    /\ error = NULL
    /\ selectedPreset = NULL
    /\ suggestReqs = <<>>
    /\ wire = {}
    /\ settled = NoOutcome
    /\ fund = NoFund
    /\ rank = Missing
    /\ expanded = FALSE

\* The App component: lists, statistics, tabs and view mode.
NextApp ==
    \/ Mount
    \/ \E o \in Outcomes(FundLists) : TopSettles(o)
    \/ \E o \in Outcomes(StatsValues) : StatsSettles(o)
    \/ TopJsonSettles
    \/ StatsJsonSettles
    \/ \E t \in Tabs : SetActiveTab(t)
    \/ \E i \in 1..MaxRankedFetches, o \in FetchOutcomes : RankedFetchSettles(i, o)
    \/ \E i \in 1..MaxRankedFetches, b \in Bodies(FundLists) : RankedJsonSettles(i, b)
    \/ \E m \in ViewModes : SetViewMode(m)

\* The wizard dialog, its submissions and the result dialog.
NextWizard ==
    \/ OpenWizard
    \/ DismissWizard
    \/ WizardBack
    \/ WizardNext
    \/ \E a \in AmountInputs : SetAmount(a)
    \/ \E h \in Horizons : SetHorizon(h)
    \/ \E p \in PresetIds : HandlePresetSelect(p)
    \/ \E v \in SliderMin..SliderMax : SliderChange(v)
    \/ HandleSubmit
    \/ \E i \in 1..MaxSuggestInFlight, o \in FetchOutcomes : SuggestFetchSettles(i, o)
    \/ \E i \in 1..MaxSuggestInFlight, b \in Bodies(Portfolios) : SuggestJsonSettles(i, b)
    \/ ClosePortfolio

Next == NextApp \/ NextWizard

Spec == Init /\ [][Next]_vars

\* The list side alone, and the wizard side alone (after the mount).
SpecApp == Init /\ [][NextApp]_vars

SpecWizard == Init /\ [][Mount \/ NextWizard]_vars

\* The two sides together. To keep their product small, the lists and the
\* wizard are driven with a few representative inputs, and one side acts only
\* while the other has at most MaxAcross requests outstanding.
SessionLists == {<<1>>}

AppCalm == fdPc = "done" /\ Len(rankedReqs) <= MaxAcross
WizardCalm == Len(suggestReqs) <= MaxAcross

NextSessionApp ==
    \/ Mount
    \/ \E o \in {WithBody(Json(l)) : l \in SessionLists} : TopSettles(o)
    \/ \E o \in {WithBody(Json(v)) : v \in StatsValues} : StatsSettles(o)
    \/ TopJsonSettles
    \/ StatsJsonSettles
    \/ \E t \in Tabs : SetActiveTab(t)
    \/ \E i \in 1..MaxRankedFetches : RankedFetchSettles(i, Ok)
    \/ \E i \in 1..MaxRankedFetches, l \in SessionLists : RankedJsonSettles(i, Json(l))
    \/ \E m \in ViewModes : SetViewMode(m)

NextSessionWizard ==
    \/ OpenWizard
    \/ DismissWizard
    \/ WizardBack
    \/ WizardNext
    \/ SetAmount(<<"5", "0", "0", "0", "0">>)
    \/ SetHorizon("long")
    \/ HandlePresetSelect("prudent")
    \/ SliderChange(SliderMax)
    \/ HandleSubmit
    \/ \E i \in 1..MaxSuggestInFlight, o \in {NotOk, Ok} : SuggestFetchSettles(i, o)
    \/ \E i \in 1..MaxSuggestInFlight : SuggestJsonSettles(i, Json("pfA"))
    \/ ClosePortfolio

NextSession == (WizardCalm /\ NextSessionApp) \/ (AppCalm /\ NextSessionWizard)

SpecSession == Init /\ [][NextSession]_vars

\* ------------------------------------------------------------ card specification
\* The page once the initial load has succeeded with MaxRank funds, and the
\* card of one of them, collapsed: the card of position r shows fund f with
\* rank r (line 1061).
CardList == [i \in 1..MaxRank |-> i]

PerfValues == {Missing, Of(-5), Of(9)}
VolValues == {Missing, Of(49)}
ScoreValues == {Missing, Of(-2), Of(202), Of(600)}
RatioValues == {Missing, Of(5)}
ConfidenceValues == {Missing, Of(3)}
Texts == {NULL, "", "text"}

PerfMetrics ==
    {NoMetrics} \cup
    {Metrics(p1w, p1m, p3m, p1y, p3y, vol, Missing, Missing, Missing) :
        p1w \in PerfValues, p1m \in PerfValues, p3m \in PerfValues,
        p1y \in PerfValues, p3y \in PerfValues, vol \in VolValues}
DetailMetrics ==
    {NoMetrics} \cup
    {Metrics(Missing, Missing, Missing, Missing, Missing, Missing, sh, so, dd) :
        sh \in RatioValues, so \in RatioValues, dd \in RatioValues}

\* Funds that differ in their performances, in their sub-scores, and in
\* their score and secondary fields.
PerfFunds ==
    {Fund(m, Missing, Missing, NULL, NULL, Missing, Missing, Missing) : m \in PerfMetrics}
ProfileFunds ==
    {Fund(NoMetrics, Missing, Missing, NULL, NULL, q, v, s) :
        q \in ScoreValues, v \in ScoreValues, s \in ScoreValues}
DetailFunds ==
    {Fund(m, sc, c, r, mc, Missing, Missing, Missing) :
        m \in DetailMetrics, sc \in ScoreValues, c \in ConfidenceValues,
        r \in Texts, mc \in Texts}
Funds == PerfFunds \cup ProfileFunds \cup DetailFunds

InitCard ==
    /\ topFunds = CardList
    /\ stats = "stats"
    /\ loading = FALSE
    /\ wizardOpen = FALSE
    /\ portfolio = NULL
    /\ activeTab = "top-week"
    /\ rankedFunds = <<>>
    /\ viewMode = "simple"
    /\ fdPc = "done"
    /\ topRes = WithBody(Json(CardList))
    /\ statsRes = WithBody(Json("stats"))
    /\ rankedReqs = <<>>
    /\ rankedIssued = 0
    /\ rankedApplied = 0
    /\ rankedSettled = "none"
    /\ rankedLoaded = FALSE
    /\ topIssued = 1
    /\ statsIssued = 1
    /\ everRanked = FALSE
    /\ step = 1
    /\ amount = InitialAmount
    /\ horizon = "medium"
    /\ targetSri = <<InitialSri>>
    /\ wLoading = FALSE
    /\ error = NULL
    /\ selectedPreset = NULL
    /\ suggestReqs = <<>>
    /\ wire = {}
    /\ settled = NoOutcome
    /\ fund \in Funds
    /\ rank \in {Of(r) : r \in 1..MaxRank}
    /\ expanded = FALSE

NextCard ==
    \/ \E m \in ViewModes : SetViewMode(m)
    \/ ToggleExpanded

SpecCard == InitCard /\ [][NextCard]_vars

\* ------------------------------------------------------------ list specification
\* The cards of a list (lines 1060-1062, 1079-1081): the fund at index idx
\* is shown with rank idx + 1. Position i of a sequence is index i - 1.
Cards(funds) ==
    [i \in 1..Len(funds) |-> LET idx == i - 1 IN [fund |-> funds[i], rank |-> idx + 1]]

\* The content of the two tabs (lines 1052-1064, 1078-1082): the top-week
\* tab shows placeholders while loading.
TopWeekContent == IF loading THEN <<>> ELSE Cards(topFunds)
RankedContent == Cards(rankedFunds)

\* The loaded page with one card of the top-week list under observation;
\* the user switches tabs and view mode and expands the card while the
\* ranking is fetched.
ObservedFund ==
    Fund(NoMetrics, Of(202), Of(3), "text", "text", Missing, Missing, Missing)

InitLists == InitCard /\ fund = ObservedFund

NextLists ==
    \/ \E t \in Tabs : SetActiveTab(t)
    \/ \E i \in 1..MaxRankedFetches, o \in FetchOutcomes : RankedFetchSettles(i, o)
    \/ \E i \in 1..MaxRankedFetches, b \in Bodies(FundLists) : RankedJsonSettles(i, b)
    \/ \E m \in ViewModes : SetViewMode(m)
    \/ ToggleExpanded

SpecLists == InitLists /\ [][NextLists]_vars

\* ------------------------------------------------------------ fair specification
\* The initial load with every outcome of its two requests, and the wizard
\* with every outcome of its submissions. The first render is committed,
\* and every request that is pending settles.
NextLive ==
    \/ Mount
    \/ \E o \in Outcomes(SessionLists) : TopSettles(o)
    \/ \E o \in Outcomes(StatsValues) : StatsSettles(o)
    \/ TopJsonSettles
    \/ StatsJsonSettles
    \/ OpenWizard
    \/ DismissWizard
    \/ WizardBack
    \/ WizardNext
    \/ HandleSubmit
    \/ \E i \in 1..MaxSuggestInFlight, o \in FetchOutcomes : SuggestFetchSettles(i, o)
    \/ \E i \in 1..MaxSuggestInFlight, b \in Bodies(Portfolios) : SuggestJsonSettles(i, b)
    \/ ClosePortfolio

RequestsSettle ==
    /\ WF_vars(Mount)
    /\ WF_vars(\E o \in Outcomes(SessionLists) : TopSettles(o))
    /\ WF_vars(\E o \in Outcomes(StatsValues) : StatsSettles(o))
    /\ WF_vars(TopJsonSettles)
    /\ WF_vars(StatsJsonSettles)
    /\ \A i \in 1..MaxSuggestInFlight :
          /\ WF_vars(\E o \in FetchOutcomes : SuggestFetchSettles(i, o))
          /\ WF_vars(\E b \in Bodies(Portfolios) : SuggestJsonSettles(i, b))

SpecLive == Init /\ [][NextLive]_vars /\ RequestsSettle

\* ------------------------------------------------------------ properties
Succeeded(r) == r.kind = "response" /\ r.ok /\ r.body.json

SuggestRequests(w) == {r \in w : r.op = "suggest"}

\* C1: at most one fetch of the fundamental-ranking list is outstanding at
\* any time, whatever the sequence of tab activations.
C1_AtMostOneRankedInFlight == Len(rankedReqs) <= 1

\* C2: once a fetch of the fundamental-ranking list has completed
\* successfully (also with an empty fund sequence), no step issues another
\* fetch of that list.
C2_NoRefetchOnceLoaded == [][rankedLoaded => rankedIssued' = rankedIssued]_vars

\* C3: a response is stored in rankedFunds only if it answers the most
\* recently issued fetch; the response of an older fetch is never stored.
C3_OnlyCurrentResponseApplied ==
    [][rankedApplied' # rankedApplied => rankedApplied' = rankedIssued]_vars

\* C4: when the initial load has finished, each of the two requests that
\* succeeded (fulfilled, success status, well-formed body) has its data
\* stored, whatever happened to the other one.
C4_SucceededIsStored ==
    fdPc = "done" =>
        /\ Succeeded(topRes) => topFunds = topRes.body.data
        /\ Succeeded(statsRes) => stats = statsRes.body.data

\* C5: selectedPreset is non-null only while (targetSri, horizon) is the
\* pair of that preset.
C5_PresetMatchesPair ==
    selectedPreset # NULL =>
        /\ targetSri[1] = Presets[selectedPreset].sri
        /\ horizon = Presets[selectedPreset].horizon

\* C6: the top-of-week list is requested exactly once per session: once at
\* mount, and by no later step (tab activation, view-mode toggle, response).
C6_TopWeekFetchedOnce ==
    /\ topIssued = (IF Mounted THEN 1 ELSE 0)
    /\ Mounted /\ fdPc # "awaitAll" => CountOp(wire, "top-week") = 0
    /\ (CountOp(wire, "top-week") > 0) => (fdPc = "awaitAll" /\ ~everRanked)

C6_Witness ==
    /\ topIssued = 1
    /\ everRanked
    /\ activeTab = "top-week"
    /\ viewMode = "advanced"
    /\ fdPc = "done"

\* C7: no fundamental-ranking request is issued before the ranked view has
\* been activated, whereas the top-of-week request is issued by the mount
\* itself.
C7_RankedLazyTopEager ==
    /\ rankedIssued > 0 => everRanked
    /\ ~everRanked => CountOp(wire, "ranked") = 0
    /\ Mounted => topIssued >= 1

C7_Witness ==
    /\ rankedIssued = 1
    /\ everRanked
    /\ CountOp(wire, "ranked") = 1
    /\ topIssued = 1

\* C8: after a failed fetch of the ranked list, the list is in a state of
\* its own: it differs from the state of a list never fetched and from the
\* state of a list loaded with no funds (both store the empty sequence).
C8_FailureIsDistinguishable ==
    (rankedSettled = "failed" /\ rankedReqs = <<>>) => rankedFunds # <<>>

\* C9: every suggestion request issued by submit carries exactly amount,
\* horizon, target_sri and sri_tolerance: the JSON number written for
\* parseFloat(amount), the horizon and the risk target of the wizard at the
\* moment of the submit, and the tolerance 1; the request is therefore a
\* function of these inputs, and a re-submit with unchanged inputs repeats it.
C9_RequestBody ==
    [][\A r \in SuggestRequests(wire') :
            /\ DOMAIN r.body = {"amount", "horizon", "target_sri", "sri_tolerance"}
            /\ r.body.amount = JsonNumber(ParseFloat(amount))
            /\ r.body.horizon = horizon
            /\ r.body.target_sri = targetSri[1]
            /\ r.body.sri_tolerance = 1]_vars

C9_Witness ==
    /\ selectedPreset = "dynamique"
    /\ wire = {Request("suggest", [amount |-> Number(FALSE, 5, 4),
                                   horizon |-> "long",
                                   target_sri |-> 6,
                                   sri_tolerance |-> 1])}

\* C10: the amount of every issued suggestion request is a non-negative
\* number.
C10_AmountNonNegative ==
    \A r \in SuggestRequests(wire) :
        r.body.amount.kind = "number" /\ ~r.body.amount.neg

\* C11: the wizard goes from step 1 to step 2 only when amount is a
\* non-empty numeric string; on an empty or non-numeric amount, next leaves
\* it on step 1.
C11_NextNeedsNumericAmount ==
    [][(wizardOpen /\ wizardOpen' /\ step = 1 /\ step' = 2)
          => (amount # <<>> /\ ParseFloat(amount).kind = "number")]_vars

\* C12: when a submission succeeds, its suggestion is delivered to the caller
\* exactly once: the step that delivers it sets portfolio to the returned
\* suggestion and closes the wizard, records no error message, and ends the
\* invocation, so that it cannot deliver again.
C12_SuccessDelivered ==
    [][settled'.kind = "success"
          => /\ portfolio' = settled'.data
             /\ ~wizardOpen'
             /\ error' = NULL
             /\ Len(suggestReqs') = Len(suggestReqs) - 1]_vars

\* A submission of the open wizard has just succeeded.
C12_Witness ==
    /\ settled.kind = "success"
    /\ settled.live
    /\ portfolio = settled.data
    /\ ~wizardOpen

\* C13: when a submission of the open wizard fails (network failure,
\* non-2xx status or unreadable body), the wizard records the generic error
\* message and stays open, portfolio is unchanged, step, amount, horizon,
\* targetSri and selectedPreset keep their values, and submit is enabled
\* again.
C13_FailureKeepsWizard ==
    [][(settled'.kind = "failure" /\ settled'.live)
          => /\ error' = ErrorMessage
             /\ wizardOpen /\ wizardOpen'
             /\ portfolio' = portfolio
             /\ step' = step
             /\ amount' = amount
             /\ horizon' = horizon
             /\ targetSri' = targetSri
             /\ selectedPreset' = selectedPreset
             /\ ~wLoading']_vars

\* A submission made with a preset and an edited amount has just failed.
C13_Witness ==
    /\ settled.kind = "failure"
    /\ settled.live
    /\ wizardOpen
    /\ error = ErrorMessage
    /\ step = 3
    /\ selectedPreset = "prudent"
    /\ amount = <<"5", "0", "0", "0", "0">>
    /\ ~wLoading

\* C14: no request is issued automatically. Once the page is mounted, a
\* request for the ranked list is issued only by the step in which the user
\* activates the ranked tab, and a suggestion request only by the step in
\* which the user submits; the steps that handle a response, failed or not,
\* issue none.
C14_RequestsAreUserInitiated ==
    [][Mounted
          => /\ (CountOp(wire', "ranked") > 0
                    => (activeTab # "ranked" /\ activeTab' = "ranked"))
             /\ (CountOp(wire', "suggest") > 0
                    => (~wLoading /\ wLoading' /\ settled' = NoOutcome))
             /\ (rankedSettled' = "failed" /\ rankedSettled # "failed"
                    => wire' = {})
             /\ (settled'.kind = "failure" => wire' = {})]_vars

\* C15: navigation is bounded. Next takes step 1 to 2 and 2 to 3, back takes
\* 3 to 2 and 2 to 1; back on step 1 leaves the step alone and closes the
\* wizard; next is not available on step 3; nothing else moves the step of
\* an open wizard, and the step never leaves 1..3.
C15_Navigation ==
    /\ [](step \in 1..3)
    /\ [](wizardOpen /\ step = 3 => ~ENABLED WizardNext)
    /\ [][WizardNext => (step \in {1, 2} /\ step' = step + 1 /\ wizardOpen')]_vars
    /\ [][WizardBack => IF step = 1
                         THEN step' = step /\ ~wizardOpen'
                         ELSE step' = step - 1 /\ wizardOpen']_vars
    /\ [][(wizardOpen /\ wizardOpen' /\ step' # step)
             => (WizardNext \/ WizardBack)]_vars

\* The wizard is back on step 1 after having been on step 3.
C15_Witness ==
    /\ wizardOpen
    /\ step = 1
    /\ selectedPreset = "dynamique"

\* C16: in every reachable state step is 1, 2 or 3, horizon is short, medium
\* or long, and targetSri holds one integer between 1 and 7.
C16_WizardTypes ==
    /\ step \in {1, 2, 3}
    /\ horizon \in {"short", "medium", "long"}
    /\ Len(targetSri) = 1
    /\ targetSri[1] \in 1..7

\* The wizard is on its last step with the highest risk level and the
\* shortest horizon.
C16_Witness ==
    /\ wizardOpen
    /\ step = 3
    /\ targetSri = <<7>>
    /\ horizon = "short"

\* C17: selecting a preset sets targetSri, horizon and selectedPreset in one
\* step (prudent: 2 and short, equilibre: 4 and medium, dynamique: 6 and
\* long) and leaves step and amount unchanged.
C17_PresetAtomic ==
    [][/\ HandlePresetSelect("prudent")
            => (targetSri' = <<2>> /\ horizon' = "short"
                /\ selectedPreset' = "prudent"
                /\ step' = step /\ amount' = amount)
       /\ HandlePresetSelect("equilibre")
            => (targetSri' = <<4>> /\ horizon' = "medium"
                /\ selectedPreset' = "equilibre"
                /\ step' = step /\ amount' = amount)
       /\ HandlePresetSelect("dynamique")
            => (targetSri' = <<6>> /\ horizon' = "long"
                /\ selectedPreset' = "dynamique"
                /\ step' = step /\ amount' = amount)]_vars

\* A preset was selected after the amount had been edited: the three fields
\* are the preset's and the amount is the edited one.
C17_Witness ==
    /\ wizardOpen
    /\ step = 3
    /\ selectedPreset = "dynamique"
    /\ targetSri = <<6>>
    /\ horizon = "long"
    /\ amount = <<"2", ".", "5", "0">>

\* C18: moving the slider to v sets targetSri to v and clears selectedPreset,
\* whether or not a preset was selected, and leaves horizon, amount and step
\* unchanged, for every v from 1 to 7.
C18_SliderFrame ==
    [][\A v \in 1..7 :
          SliderChange(v)
             => /\ targetSri' = <<v>>
                /\ selectedPreset' = NULL
                /\ horizon' = horizon
                /\ amount' = amount
                /\ step' = step]_vars

\* The slider was moved after a preset had set the horizon: the horizon is
\* still the preset's, the preset is cleared.
C18_Witness ==
    /\ wizardOpen
    /\ step = 3
    /\ targetSri = <<1>>
    /\ selectedPreset = NULL
    /\ horizon = "long"
    /\ amount = <<"1", "e", "3">>

\* C19: every time the wizard is opened, for the first time or after a
\* cancel, a failure or a success, it starts on step 1 with amount "100000",
\* horizon medium, targetSri 4, no preset, no submission of its own in flight
\* and no error message.
C19_OpensFresh ==
    [][(~wizardOpen /\ wizardOpen')
          => /\ step' = 1
             /\ amount' = <<"1", "0", "0", "0", "0", "0">>
             /\ horizon' = "medium"
             /\ targetSri' = <<4>>
             /\ selectedPreset' = NULL
             /\ wLoading' = FALSE
             /\ error' = NULL]_vars

\* The wizard has just been opened again after a success, while the
\* submission of an earlier, dismissed wizard is still outstanding.
C19_Witness ==
    /\ wizardOpen
    /\ step = 1
    /\ amount = InitialAmount
    /\ ~wLoading
    /\ portfolio # NULL
    /\ \E i \in DOMAIN suggestReqs : ~suggestReqs[i].live

\* C20: once a wizard has been cancelled or dismissed, no later event of
\* that wizard changes the caller's state: when the submission it left in
\* flight completes, portfolio is not set and the open or closed state of
\* the dialog, possibly opened again since, is not modified.
C20_ClosedIsTerminal ==
    [][(settled'.kind # "none" /\ ~settled'.live)
          => (portfolio' = portfolio /\ wizardOpen' = wizardOpen)]_vars

\* C21: a change of the view mode issues no request and leaves topFunds,
\* rankedFunds, stats, the active tab, the wizard (open or not, its fields,
\* its submissions) and portfolio unchanged.
C21_ViewModeFrame ==
    [][viewMode' # viewMode
          => /\ wire' = {}
             /\ UNCHANGED <<topFunds, rankedFunds, stats, activeTab>>
             /\ UNCHANGED <<topIssued, statsIssued, rankedIssued>>
             /\ UNCHANGED <<wizardOpen, wizVars, suggestReqs, portfolio>>]_vars

\* The advanced view with both lists and the statistics loaded, a
\* suggestion on display and the wizard open on its last step with a
\* submission in flight.
C21_Witness ==
    /\ viewMode = "advanced"
    /\ topFunds # <<>>
    /\ rankedFunds # <<>>
    /\ stats # NULL
    /\ activeTab = "ranked"
    /\ portfolio # NULL
    /\ wizardOpen /\ step = 3 /\ wLoading
    /\ wire = {}

\* C22: the view preference is always simple or advanced and starts as
\* simple; both values can be set at any time once the page is mounted;
\* after set(m) the preference that every reader gets is m; setting the
\* value it already has changes nothing.
C22_ViewPreference ==
    /\ viewMode = "simple"
    /\ [](viewMode \in {"simple", "advanced"})
    /\ [](Mounted => \A m \in {"simple", "advanced"} : ENABLED SetViewMode(m))
    /\ [][\A m \in ViewModes :
            SetViewMode(m)
              => /\ viewMode' = m
                 /\ (viewMode = m
                       => UNCHANGED <<appVars, fetchVars, rankedVars, histVars,
                                      wizVars, suggestReqs, cardVars>>)]_vars

C22_Witness ==
    /\ viewMode = "advanced" /\ activeTab = "ranked" /\ wizardOpen /\ step = 2

\* C23: the card shows the single "performance unavailable" marker exactly
\* when the metrics are absent or every performance field selected for the
\* current view mode is null: 1-month and 1-year in simple mode; 1-week,
\* 1-month, 1-year, 3-year and volatility in advanced mode.
C23_MarkerIffAllSelectedNull ==
    LET selected == IF viewMode = "simple"
                    THEN {"perf_1m", "perf_1y"}
                    ELSE {"perf_1w", "perf_1m", "perf_1y", "perf_3y", "vol_60d"}
    IN  card.perf.unavailable
          <=> (\/ fund.metrics = NoMetrics
               \/ \A f \in selected : fund.metrics[f] = Missing)

\* C24: when the card shows performance slots, they are 1-month and 1-year
\* in simple mode and 1-week, 1-month, 1-year, 3-year and volatility in
\* advanced mode, in that order; each slot reads its value (two decimals,
\* one for the volatility) or N/A when the value is null; the 3-month
\* performance has no slot.
C24_SlotsFollowMode ==
    LET m == fund.metrics
        expected == IF viewMode = "simple"
                    THEN <<[label |-> "1M", value |-> m.perf_1m, digits |-> 2],
                           [label |-> "1A", value |-> m.perf_1y, digits |-> 2]>>
                    ELSE <<[label |-> "1S", value |-> m.perf_1w, digits |-> 2],
                           [label |-> "1M", value |-> m.perf_1m, digits |-> 2],
                           [label |-> "1A", value |-> m.perf_1y, digits |-> 2],
                           [label |-> "3A", value |-> m.perf_3y, digits |-> 2],
                           [label |-> "Vol", value |-> m.vol_60d, digits |-> 1]>>
        slots == card.perf.slots
    IN  ~card.perf.unavailable
          => /\ Len(slots) = Len(expected)
             /\ \A i \in DOMAIN slots :
                   /\ slots[i].label = expected[i].label
                   /\ (expected[i].value = Missing => slots[i].text = NA)
                   /\ (expected[i].value # Missing
                         => /\ Len(slots[i].text) = 1
                            /\ slots[i].text[1].digits = expected[i].digits
                            /\ slots[i].text[1].neg = (expected[i].value[1] < 0)
                            /\ Abs(slots[i].text[1].units * Quarter
                                    - Abs(expected[i].value[1]) * Pow10(expected[i].digits))
                                 * 2 <= Quarter)

\* Advanced mode, 1-week null, 3-month known: the slots read N/A, -1.25,
\* 2.25, N/A and 12.3.
C24_Witness ==
    /\ viewMode = "advanced"
    /\ fund.metrics # NoMetrics
    /\ fund.metrics.perf_3m = Of(9)
    /\ ~card.perf.unavailable
    /\ [i \in 1..5 |-> card.perf.slots[i].text]
         = << NA, <<[neg |-> TRUE, units |-> 125, digits |-> 2]>>,
              <<[neg |-> FALSE, units |-> 225, digits |-> 2]>>, NA,
              <<[neg |-> FALSE, units |-> 123, digits |-> 1]>> >>

\* C25: in simple mode the card offers the toggle and includes a secondary
\* field (Sharpe, Sortino, max drawdown, confidence, reasoning, management
\* company) only when it is expanded; in advanced mode it offers no toggle
\* and includes every secondary field the fund has.
C25_SecondaryFollowToggle ==
    LET m == fund.metrics
        has == [f \in {"sharpe", "sortino", "max_drawdown", "confidence",
                       "reasoning", "management_company"} |->
                  CASE f = "sharpe" -> m # NoMetrics /\ m.sharpe_ratio # Missing
                    [] f = "sortino" -> m # NoMetrics /\ m.sortino_ratio # Missing
                    [] f = "max_drawdown" -> m # NoMetrics /\ m.max_drawdown # Missing
                    [] f = "confidence" -> fund.confidence # Missing
                    [] f = "reasoning" -> Truthy(fund.reasoning)
                    [] f = "management_company" -> Truthy(fund.management_company)]
        Included(f) ==
            \/ f = "confidence" /\ card.confidence # NA
            \/ \E i \in DOMAIN card.details : card.details[i].field = f
    IN  /\ viewMode = "simple"
          => /\ card.toggle
             /\ \A f \in DOMAIN has : Included(f) => expanded
             /\ \A f \in DOMAIN has : (expanded /\ has[f]) => Included(f)
        /\ viewMode = "advanced"
          => /\ ~card.toggle
             /\ \A f \in DOMAIN has : has[f] => Included(f)

\* C26: a fund whose quality, valuation and stability sub-scores are all
\* null gets the "data unavailable" marker and no bar row, in both view
\* modes.
C26_AllNullGivesMarker ==
    (/\ fund.quality_score = Missing
     /\ fund.valuation_score = Missing
     /\ fund.stability_score = Missing)
      => /\ card.profile.unavailable
         /\ card.profile.rows = <<>>

\* Such a fund seen in advanced mode, next to other data it does have.
C26_Witness ==
    /\ viewMode = "advanced"
    /\ fund.quality_score = Missing
    /\ fund.valuation_score = Missing
    /\ fund.stability_score = Missing
    /\ fund.fundamental_score # Missing
    /\ card.profile.unavailable

\* C27: a fund with at least one non-null sub-score gets exactly three rows,
\* quality, valuation, stability in that order; the row of a null sub-score
\* reads N/A, and the row of a non-null one reads a number within 0..100.
C27_ThreeClampedRows ==
    LET scores == <<fund.quality_score, fund.valuation_score, fund.stability_score>>
        rows == card.profile.rows
    IN  (\E i \in 1..3 : scores[i] # Missing)
          => /\ ~card.profile.unavailable
             /\ [i \in DOMAIN rows |-> rows[i].label] = <<"Gestion", "Valo", "Stabilite">>
             /\ \A i \in 1..3 :
                   IF scores[i] = Missing
                   THEN rows[i].text = NA /\ rows[i].width = Missing
                   ELSE /\ rows[i].width # Missing
                        /\ rows[i].width[1] \in 0..(100 * Quarter)
                        /\ rows[i].text # NA
                        /\ ~rows[i].text[1].neg
                        /\ rows[i].text[1].units \in 0..100

\* C28: the highlight tier of a card is decided by its rank alone: gold for
\* rank 1, silver for rank 2, bronze for rank 3, none from rank 4 on,
\* whatever the score of the fund (null included) and the view mode.
C28_TierFromRank ==
    card.tier = (CASE rank[1] = 1 -> "gold"
                   [] rank[1] = 2 -> "silver"
                   [] rank[1] = 3 -> "bronze"
                   [] rank[1] >= 4 -> "none")

\* The third card, of a fund without score, seen in advanced mode.
C28_Witness ==
    /\ rank = Of(3)
    /\ fund.fundamental_score = Missing
    /\ card.score = NA
    /\ viewMode = "advanced"
    /\ card.tier = "bronze"

\* C29: while a submission of the open wizard is in flight, a step either
\* completes it (success or failure), closes the wizard (cancel), or leaves
\* the step and every field of the wizard as they are: back, next, preset,
\* risk, horizon and amount actions change nothing.
C29_SubmissionFreezesWizard ==
    [][(wizardOpen /\ wLoading)
          => \/ settled'.kind # "none"
             \/ ~wizardOpen'
             \/ UNCHANGED wizVars]_vars

\* C30: the lists and the wizard do not act on each other. A wizard action
\* or the outcome of a submission sends no list or statistics request and
\* leaves the stored lists, the statistics and their fetches as they are;
\* a tab activation or the response of a list or statistics fetch (like
\* every other step of the page) leaves every wizard field, the submissions
\* in flight and the portfolio as they are and completes no submission.
C30_ListsAndWizardIndependent ==
    /\ [][\/ /\ \A r \in wire' : r.op = "suggest"
               /\ UNCHANGED <<topFunds, rankedFunds, stats, loading, activeTab>>
               /\ UNCHANGED <<fetchVars, rankedVars, histVars>>
            \/ ~NextSessionWizard]_vars
    /\ [][\/ /\ \A r \in wire' : r.op # "suggest"
               /\ settled' = NoOutcome
               /\ UNCHANGED <<wizardOpen, wizVars, suggestReqs, portfolio>>
            \/ ~NextSessionApp]_vars

\* A list response has been stored while a submission was in flight, and a
\* submission has succeeded while the page showed its lists.
C30_Witness ==
    /\ rankedFunds # <<>> /\ topFunds # <<>> /\ stats # NULL
    /\ portfolio # NULL
    /\ wizardOpen /\ wLoading /\ suggestReqs # <<>>
    /\ activeTab = "ranked"

\* C31: a tab shows the cards of its stored list in the order of the list,
\* the fund at position i (counted from 0) with rank i + 1; a stored list
\* changes only when a successful response is stored, and is then exactly
\* the sequence of that response; a view-mode toggle, a tab switch or a card
\* expansion leaves both lists as they are.
C31_ListOrder ==
    /\ [](/\ ~loading => Len(TopWeekContent) = Len(topFunds)
          /\ \A i \in DOMAIN TopWeekContent :
                TopWeekContent[i] = [fund |-> topFunds[i], rank |-> (i - 1) + 1]
          /\ Len(RankedContent) = Len(rankedFunds)
          /\ \A i \in DOMAIN RankedContent :
                RankedContent[i] = [fund |-> rankedFunds[i], rank |-> (i - 1) + 1])
    /\ [][\/ UNCHANGED <<topFunds, rankedFunds>>
          \/ /\ UNCHANGED <<topFunds, viewMode, activeTab, expanded>>
             /\ \E i \in DOMAIN rankedReqs, l \in FundLists :
                   RankedJsonSettles(i, Json(l)) /\ rankedFunds' = l]_vars

\* The ranking shown is the sequence of a later response, in its order,
\* after the user has switched tab and view mode and expanded the card.
C31_Witness ==
    /\ rankedFunds = <<2, 1>>
    /\ RankedContent = <<[fund |-> 2, rank |-> 1], [fund |-> 1, rank |-> 2]>>
    /\ rankedApplied > 1
    /\ Len(TopWeekContent) = MaxRank
    /\ activeTab = "ranked" /\ viewMode = "advanced" /\ expanded

\* C32: at most one suggestion request is outstanding at any time, over
\* every sequence of wizard actions, dismissing the wizard during a
\* submission, reopening it and submitting again included.
C32_AtMostOneSuggestInFlight == Len(suggestReqs) <= 1

\* C33: a submission in flight and a recorded error message never coexist
\* in the wizard; submit starts the submission and clears the message in
\* one step; a message is recorded only by the failure of the submission
\* of the open wizard, in the step that ends it.
C33_LoadingExcludesError ==
    /\ []((wLoading \/ \E i \in DOMAIN suggestReqs : suggestReqs[i].live)
            => error = NULL)
    /\ [][HandleSubmit => (wLoading' /\ error' = NULL)]_vars
    /\ [][(error' # NULL /\ error' # error)
            => (wLoading /\ ~wLoading' /\ settled' = Caught(TRUE))]_vars

\* A submission has just failed: the message is recorded and nothing is in
\* flight for the open wizard.
C33_Witness ==
    /\ settled = Caught(TRUE)
    /\ wizardOpen /\ step = 3
    /\ error = ErrorMessage
    /\ ~wLoading
    /\ \A i \in DOMAIN suggestReqs : ~suggestReqs[i].live

\* C34: provided the first render is committed and pending requests settle,
\* the loading flag of the page eventually becomes false, whatever the
\* outcomes of the top-of-week and statistics requests, and never becomes
\* true again; and whenever the wizard is submitting, its submitting flag
\* eventually becomes false, on success as well as on failure.
C34_LoadingEnds ==
    /\ <>(~loading)
    /\ [][loading' => loading]_vars
    /\ wLoading ~> ~wLoading

\* The page has finished loading although the top-of-week request was
\* rejected, and a submission of the wizard has just succeeded.
C34_Witness ==
    /\ ~loading /\ topRes = Rejected
    /\ settled.kind = "success" /\ settled.live
    /\ ~wLoading

====
